---------------------------- MODULE Spec2Model ----------------------------
(***************************************************************************)
(* A model of the chained hash table of src/lib.rs (HashMap<K, V>): the    *)
(* bucket array, the item counter, the entry view, the iterator cursor and *)
(* a single client that calls the public operations one after another.     *)
(*                                                                         *)
(* Bucket indices and chain offsets are 0-based as in the source; the      *)
(* TLA+ sequences that hold them are 1-based, hence the "+ 1" on access.   *)
(***************************************************************************)
EXTENDS Integers, Sequences, FiniteSets

(***************************************************************************)
(* Bounds of the model.                                                    *)
(***************************************************************************)
\* Number of distinct keys the client uses (KeyStr[1] .. KeyStr[NumKeys]).
NumKeys == 3
\* Values are 0 .. MaxValue; 0 is also i32's Default::default().
MaxValue == 1
\* insert and entry are called only while items < MaxItems (items is a usize
\* that insert increments on every call).
MaxItems == 5
\* from_iter is given at most MaxIterLen pairs.
MaxIterLen == 3

Keys == 1 .. NumKeys
Values == 0 .. MaxValue

\* The keys, as the &str keys the tests of src/lib.rs use (plus "qux").
KeyStr == <<"foo", "bar", "baz", "quox", "qux">>

\* DefaultHasher::new() is SipHash-1-3 with the key (0, 0), so finish() is a
\* fixed 64-bit number for each key: for a &str, the digest of its bytes
\* followed by 0xff. HashLow16[k] is that digest modulo 2^16:
\*   "foo"  0x3e8b8c44c3ca73b7    "bar"  0x330555745e731357
\*   "baz"  0xe1aa941267aaf42d    "quox" 0x9ab434293812bdee
\*   "qux"  0x0c07f7369a246f56
\* Every bucket count of the model is a power of two below 2^16, so
\* digest % n = (digest % 2^16) % n.
HashLow16 == <<29623, 4951, 62509, 48622, 28502>>

\* hasher.finish() for key k (its low 16 bits).
Hash(k) == HashLow16[k]

INITIAL_NBUCKETS == 1

\* i32::default(), the value or_insert_default stores.
DefaultValue == 0

(***************************************************************************)
(* Results of the calls: Option<V>, bool, usize, a panic.                  *)
(***************************************************************************)
None == [tag |-> "None", key |-> 0, val |-> 0]
Some(v) == [tag |-> "Some", key |-> 0, val |-> v]
SomePair(k, v) == [tag |-> "Some", key |-> k, val |-> v]
Bool(b) == [tag |-> "Bool", key |-> 0, val |-> IF b THEN 1 ELSE 0]
Usize(n) == [tag |-> "usize", key |-> 0, val |-> n]
Unit == [tag |-> "()", key |-> 0, val |-> 0]
Panic == [tag |-> "panic", key |-> 0, val |-> 0]

NoEntry == [kind |-> "none", key |-> 0, bucket |-> 0, at |-> 0]
NoIter == [bucket |-> 0, at |-> 0]

VARIABLES
    buckets,    \* HashMap::buckets: Vec<Vec<(K, V)>>
    items,      \* HashMap::items
    pc,         \* the client: "idle", "entry" (holds an Entry), "iter" (holds an Iter), "panicked"
    ent,        \* the Entry the client holds (Occupied: bucket, at; Vacant: key, bucket)
    iter,       \* the Iter the client holds: bucket, at
    yielded,    \* the pairs the Iter has yielded so far
    call,       \* the last call: op, key, val (for from_iter, val is the sequence of pairs)
    ret,        \* what the last call returned
    pre,        \* buckets and items when the last call started
    shadow,     \* history: key -> the value the calls so far associate with it (None: absent)
    distinctInserts \* history: every mutating call so far was an insert of an absent key

vars == <<buckets, items, pc, ent, iter, yielded, call, ret, pre, shadow, distinctInserts>>

(***************************************************************************)
(* Pure helpers over the bucket array.                                     *)
(***************************************************************************)
\* HashMap::bucket: (hasher.finish() % self.buckets.len() as u64) as usize.
\* The remainder panics ("divisor of zero") when b is empty: BucketPanics.
BucketPanics(b) == Len(b) = 0
Bucket(b, k) == Hash(k) % Len(b)

\* Iterator::position over a chain: the 1-based offset of the first pair whose
\* key is k, 0 when there is none.
RECURSIVE PositionFrom(_, _, _)
PositionFrom(chain, k, i) ==
    IF i > Len(chain) THEN 0
    ELSE IF chain[i][1] = k THEN i
    ELSE PositionFrom(chain, k, i + 1)
Position(chain, k) == PositionFrom(chain, k, 1)

\* The first pair of bucket Bucket(b, k) whose key is k, as get finds it.
Find(b, k) ==
    LET chain == b[Bucket(b, k) + 1]
        pos == Position(chain, k)
    IN IF pos = 0 THEN None ELSE Some(chain[pos][2])

\* A resize condition without the is_empty() test.
NeedsResize_LoadOnly(b, n) == n > (3 * Len(b)) \div 4

\* The resize condition of insert and entry.
NeedsResize(b, n) == Len(b) = 0 \/ n > (3 * Len(b)) \div 4

\* self.buckets.iter_mut().flat_map(|bucket| bucket.drain(..)): the pairs in
\* bucket order, each chain front to back.
RECURSIVE Drain(_, _)
Drain(b, i) ==
    IF i > Len(b) THEN <<>> ELSE b[i] \o Drain(b, i + 1)

\* The loop of resize: push each drained pair on new_buckets[hash % len].
RECURSIVE Rehash(_, _, _)
Rehash(nb, pairs, i) ==
    IF i > Len(pairs) THEN nb
    ELSE LET p == pairs[i]
             j == Hash(p[1]) % Len(nb)
         IN Rehash([nb EXCEPT ![j + 1] = Append(@, p)], pairs, i + 1)

\* A resize that addresses the new array with the old bucket count.
RECURSIVE RehashModulo(_, _, _, _)
RehashModulo(nb, pairs, i, m) ==
    IF i > Len(pairs) THEN nb
    ELSE LET p == pairs[i]
             j == Hash(p[1]) % m
         IN RehashModulo([nb EXCEPT ![j + 1] = Append(@, p)], pairs, i + 1, m)

Resize_OldBucketCount(b) ==
    RehashModulo([j \in 1 .. (IF Len(b) = 0 THEN 1 ELSE 2 * Len(b)) |-> <<>>],
                 Drain(b, 1), 1, Len(b))

\* A target size that grows by one bucket instead of doubling.
TargetSize_AddsOne(b) == IF Len(b) = 0 THEN 1 ELSE Len(b) + 1

TargetSize(b) == IF Len(b) = 0 THEN INITIAL_NBUCKETS ELSE 2 * Len(b)

Resize(b) ==
    Rehash([j \in 1 .. TargetSize(b) |-> <<>>], Drain(b, 1), 1)

\* A swap_remove that drops the last element whatever the index (Vec::pop).
SwapRemove_PopLast(chain, pos) == SubSeq(chain, 1, Len(chain) - 1)

\* Vec::swap_remove(index): the last element takes the place of the removed one.
SwapRemove(chain, pos) ==
    LET last == Len(chain)
    IN SubSeq([chain EXCEPT ![pos] = chain[last]], 1, last - 1)

(***************************************************************************)
(* Initial state: HashMap::new(), no call made yet.                        *)
(***************************************************************************)
Init ==
    /\ buckets = <<>>
    /\ items = 0
    /\ pc = "idle"
    /\ ent = NoEntry
    /\ iter = NoIter
    /\ yielded = <<>>
    /\ call = [op |-> "new", key |-> 0, val |-> 0]
    /\ ret = Unit
    /\ pre = [buckets |-> <<>>, items |-> 0]
    /\ shadow = [k \in Keys |-> None]
    /\ distinctInserts = TRUE

Called(op, k, v) ==
    /\ call' = [op |-> op, key |-> k, val |-> v]
    /\ pre' = [buckets |-> buckets, items |-> items]

\* A read that panics in bucket() (remainder by zero): the thread unwinds.
Panics ==
    /\ pc' = "panicked"
    /\ ret' = Panic
    /\ UNCHANGED <<buckets, items, ent, iter, yielded, shadow, distinctInserts>>

(***************************************************************************)
(* HashMap::insert                                                         *)
(***************************************************************************)
\* An insert that hands back the value it was given instead of the replaced one.
InsertResult_ReturnsNew(b, n, k, v) ==
    LET b1 == IF NeedsResize(b, n) THEN Resize(b) ELSE b
        i == Bucket(b1, k)
        pos == Position(b1[i + 1], k)
    IN IF pos # 0
       THEN [buckets |-> [b1 EXCEPT ![i + 1][pos][2] = v], items |-> n + 1, ret |-> Some(v)]
       ELSE [buckets |-> [b1 EXCEPT ![i + 1] = Append(@, <<k, v>>)], items |-> n + 1, ret |-> None]

\* An insert that computes the bucket index before it resizes.
InsertResult_StaleBucket(b, n, k, v) ==
    LET b1 == IF NeedsResize(b, n) THEN Resize(b) ELSE b
        i == IF Len(b) = 0 THEN 0 ELSE Bucket(b, k)
        pos == Position(b1[i + 1], k)
    IN IF pos # 0
       THEN [buckets |-> [b1 EXCEPT ![i + 1][pos][2] = v], items |-> n + 1, ret |-> Some(b1[i + 1][pos][2])]
       ELSE [buckets |-> [b1 EXCEPT ![i + 1] = Append(@, <<k, v>>)], items |-> n + 1, ret |-> None]

\* An insert that counts only when it replaces a value.
InsertResult_CountsReplaceOnly(b, n, k, v) ==
    LET b1 == IF NeedsResize(b, n) THEN Resize(b) ELSE b
        i == Bucket(b1, k)
        pos == Position(b1[i + 1], k)
    IN IF pos # 0
       THEN [buckets |-> [b1 EXCEPT ![i + 1][pos][2] = v], items |-> n + 1, ret |-> Some(b1[i + 1][pos][2])]
       ELSE [buckets |-> [b1 EXCEPT ![i + 1] = Append(@, <<k, v>>)], items |-> n, ret |-> None]

\* An insert that pushes the pair without scanning the chain for the key.
InsertResult_AlwaysPushes(b, n, k, v) ==
    LET b1 == IF NeedsResize(b, n) THEN Resize(b) ELSE b
        i == Bucket(b1, k)
    IN [buckets |-> [b1 EXCEPT ![i + 1] = Append(@, <<k, v>>)], items |-> n + 1, ret |-> None]

InsertResult(b, n, k, v) ==
    LET b1 == IF NeedsResize(b, n) THEN Resize(b) ELSE b
        i == Bucket(b1, k)
        pos == Position(b1[i + 1], k)
    IN IF pos # 0
       THEN [buckets |-> [b1 EXCEPT ![i + 1][pos][2] = v],
             items |-> n + 1,
             ret |-> Some(b1[i + 1][pos][2])]
       ELSE [buckets |-> [b1 EXCEPT ![i + 1] = Append(@, <<k, v>>)],
             items |-> n + 1,
             ret |-> None]

Insert(k, v) ==
    /\ pc = "idle"
    /\ items < MaxItems
    /\ Called("insert", k, v)
    /\ LET r == InsertResult(buckets, items, k, v)
       IN /\ buckets' = r.buckets
          /\ items' = r.items
          /\ ret' = r.ret
    /\ shadow' = [shadow EXCEPT ![k] = Some(v)]
    /\ distinctInserts' = (distinctInserts /\ shadow[k] = None)
    /\ UNCHANGED <<pc, ent, iter, yielded>>

(***************************************************************************)
(* HashMap::get, contains_key, remove, len, is_empty                       *)
(***************************************************************************)
Get(k) ==
    /\ pc = "idle"
    /\ Called("get", k, 0)
    /\ IF BucketPanics(buckets)
       THEN Panics
       ELSE /\ ret' = Find(buckets, k)
            /\ UNCHANGED <<buckets, items, pc, ent, iter, yielded, shadow, distinctInserts>>

\* What get(key) gives on table b: the panic of bucket() on an empty bucket
\* array, the result of the scan otherwise.
GetOf(b, k) == IF BucketPanics(b) THEN Panic ELSE Find(b, k)

\* contains_key: self.get(key).is_some().
ContainsKeyOf(b, k) == Find(b, k).tag = "Some"

ContainsKey(k) ==
    /\ pc = "idle"
    /\ Called("contains_key", k, 0)
    /\ IF BucketPanics(buckets)
       THEN Panics
       ELSE /\ ret' = Bool(ContainsKeyOf(buckets, k))
            /\ UNCHANGED <<buckets, items, pc, ent, iter, yielded, shadow, distinctInserts>>

\* A remove that reads the value and counts down but leaves the pair in its chain.
RemoveResult_LeavesPair(b, n, k) ==
    LET i == Bucket(b, k)
        pos == Position(b[i + 1], k)
    IN IF pos = 0
       THEN [buckets |-> b, items |-> n, ret |-> None]
       ELSE [buckets |-> b, items |-> n - 1, ret |-> Some(b[i + 1][pos][2])]

\* items -= 1 cannot underflow here: items counts at least the stored pairs.
RemoveResult(b, n, k) ==
    LET i == Bucket(b, k)
        pos == Position(b[i + 1], k)
    IN IF pos = 0
       THEN [buckets |-> b, items |-> n, ret |-> None]
       ELSE [buckets |-> [b EXCEPT ![i + 1] = SwapRemove(@, pos)],
             items |-> n - 1,
             ret |-> Some(b[i + 1][pos][2])]

Remove(k) ==
    /\ pc = "idle"
    /\ Called("remove", k, 0)
    /\ IF BucketPanics(buckets)
       THEN Panics
       ELSE /\ LET r == RemoveResult(buckets, items, k)
               IN /\ buckets' = r.buckets
                  /\ items' = r.items
                  /\ ret' = r.ret
            /\ shadow' = [shadow EXCEPT ![k] = None]
            /\ distinctInserts' = FALSE
            /\ UNCHANGED <<pc, ent, iter, yielded>>

LenOf(n) == n
IsEmptyOf(n) == n = 0

GetLen ==
    /\ pc = "idle"
    /\ Called("len", 0, 0)
    /\ ret' = Usize(LenOf(items))
    /\ UNCHANGED <<buckets, items, pc, ent, iter, yielded, shadow, distinctInserts>>

IsEmpty ==
    /\ pc = "idle"
    /\ Called("is_empty", 0, 0)
    /\ ret' = Bool(IsEmptyOf(items))
    /\ UNCHANGED <<buckets, items, pc, ent, iter, yielded, shadow, distinctInserts>>

(***************************************************************************)
(* HashMap::entry and Entry::or_insert, or_insert_with, or_insert_default  *)
(***************************************************************************)
\* An entry that captures the bucket index before it resizes.
EntryResult_CapturesBeforeResize(b, n, k) ==
    LET b1 == IF NeedsResize(b, n) THEN Resize(b) ELSE b
        i == IF Len(b) = 0 THEN 0 ELSE Bucket(b, k)
        pos == Position(b1[i + 1], k)
    IN [buckets |-> b1,
        ent |-> IF pos # 0
                THEN [kind |-> "Occupied", key |-> k, bucket |-> i, at |-> pos - 1]
                ELSE [kind |-> "Vacant", key |-> k, bucket |-> i, at |-> 0]]

EntryResult(b, n, k) ==
    LET b1 == IF NeedsResize(b, n) THEN Resize(b) ELSE b
        i == Bucket(b1, k)
        pos == Position(b1[i + 1], k)
    IN [buckets |-> b1,
        ent |-> IF pos # 0
                THEN [kind |-> "Occupied", key |-> k, bucket |-> i, at |-> pos - 1]
                ELSE [kind |-> "Vacant", key |-> k, bucket |-> i, at |-> 0]]

Entry(k) ==
    /\ pc = "idle"
    /\ items < MaxItems
    /\ Called("entry", k, 0)
    /\ LET r == EntryResult(buckets, items, k)
       IN /\ buckets' = r.buckets
          /\ ent' = r.ent
    /\ pc' = "entry"
    /\ ret' = Unit
    /\ distinctInserts' = FALSE
    /\ UNCHANGED <<items, iter, yielded, shadow>>

\* A vacant insert that pushes the pair and does not count it.
VacantInsert_NoCount(b, n, e, v) ==
    [buckets |-> [b EXCEPT ![e.bucket + 1] = Append(@, <<e.key, v>>)],
     items |-> n,
     ret |-> Some(v)]

\* VacantEntry::insert: push on the captured bucket, items += 1, return a
\* reference to the pushed value.
VacantInsert(b, n, e, v) ==
    [buckets |-> [b EXCEPT ![e.bucket + 1] = Append(@, <<e.key, v>>)],
     items |-> n + 1,
     ret |-> Some(v)]

\* An or_insert that stores the given value over the existing one.
OrInsertResult_Overwrites(b, n, e, v) ==
    IF e.kind = "Occupied"
    THEN [buckets |-> [b EXCEPT ![e.bucket + 1][e.at + 1][2] = v], items |-> n, ret |-> Some(v)]
    ELSE [buckets |-> [b EXCEPT ![e.bucket + 1] = Append(@, <<e.key, v>>)], items |-> n + 1, ret |-> Some(v)]

\* Entry::or_insert(value) and or_insert_with(|| value): Occupied returns the
\* reference to the existing value, Vacant inserts.
OrInsertResult(b, n, e, v) ==
    IF e.kind = "Occupied"
    THEN [buckets |-> b, items |-> n, ret |-> Some(b[e.bucket + 1][e.at + 1][2])]
    ELSE VacantInsert(b, n, e, v)

Resolve(op, v) ==
    /\ pc = "entry"
    /\ Called(op, ent.key, v)
    /\ LET r == OrInsertResult(buckets, items, ent, v)
       IN /\ buckets' = r.buckets
          /\ items' = r.items
          /\ ret' = r.ret
    /\ shadow' = IF ent.kind = "Vacant" THEN [shadow EXCEPT ![ent.key] = Some(v)] ELSE shadow
    /\ pc' = "idle"
    /\ ent' = NoEntry
    /\ UNCHANGED <<iter, yielded, distinctInserts>>

OrInsert(v) == Resolve("or_insert", v)

OrInsertWith(v) == Resolve("or_insert_with", v)

OrInsertDefault == Resolve("or_insert_default", DefaultValue)

\* The Entry is dropped without being resolved.
DropEntry ==
    /\ pc = "entry"
    /\ Called("drop_entry", ent.key, 0)
    /\ pc' = "idle"
    /\ ent' = NoEntry
    /\ ret' = Unit
    /\ UNCHANGED <<buckets, items, iter, yielded, shadow, distinctInserts>>

(***************************************************************************)
(* IntoIterator for &HashMap and Iterator for Iter                         *)
(***************************************************************************)
\* The Iter borrows the table shared for as long as it lives, so no mutating
\* call can be made until it is dropped; the client makes no other reads
\* meanwhile (they would change neither the table nor the cursor).
IntoIter ==
    /\ pc = "idle"
    /\ Called("into_iter", 0, 0)
    /\ pc' = "iter"
    /\ iter' = [bucket |-> 0, at |-> 0]
    /\ yielded' = <<>>
    /\ ret' = Unit
    /\ UNCHANGED <<buckets, items, ent, shadow, distinctInserts>>

\* A next that yields the pair under the cursor and leaves the cursor there.
RECURSIVE NextFrom_NoAdvance(_, _)
NextFrom_NoAdvance(b, c) ==
    IF c.bucket >= Len(b)
    THEN [iter |-> c, ret |-> None]
    ELSE IF c.at < Len(b[c.bucket + 1])
         THEN [iter |-> c,
               ret |-> SomePair(b[c.bucket + 1][c.at + 1][1], b[c.bucket + 1][c.at + 1][2])]
         ELSE NextFrom_NoAdvance(b, [bucket |-> c.bucket + 1, at |-> 0])

\* The loop of Iter::next from cursor c: the cursor it stops at and the item.
RECURSIVE NextFrom(_, _)
NextFrom(b, c) ==
    IF c.bucket >= Len(b)
    THEN [iter |-> c, ret |-> None]
    ELSE IF c.at < Len(b[c.bucket + 1])
         THEN [iter |-> [c EXCEPT !.at = c.at + 1],
               ret |-> SomePair(b[c.bucket + 1][c.at + 1][1], b[c.bucket + 1][c.at + 1][2])]
         ELSE NextFrom(b, [bucket |-> c.bucket + 1, at |-> 0])

IterNext ==
    /\ pc = "iter"
    /\ Called("next", 0, 0)
    /\ LET r == NextFrom(buckets, iter)
       IN /\ iter' = r.iter
          /\ ret' = r.ret
          /\ yielded' = IF r.ret.tag = "Some"
                        THEN Append(yielded, <<r.ret.key, r.ret.val>>)
                        ELSE yielded
    /\ UNCHANGED <<buckets, items, pc, ent, shadow, distinctInserts>>

\* The Iter is dropped; the table can be mutated again.
DropIter ==
    /\ pc = "iter"
    /\ Called("drop_iter", 0, 0)
    /\ pc' = "idle"
    /\ iter' = NoIter
    /\ yielded' = <<>>
    /\ ret' = Unit
    /\ UNCHANGED <<buckets, items, ent, shadow, distinctInserts>>

(***************************************************************************)
(* FromIterator::from_iter                                                 *)
(***************************************************************************)
\* The finite sequences of pairs the client hands to from_iter.
PairSeqs == UNION {[1 .. m -> Keys \X Values] : m \in 0 .. MaxIterLen}

\* A from_iter in which the first pair of a key wins: a pair whose key is
\* already in the map is skipped.
RECURSIVE FromIterLoop_FirstWins(_, _, _)
FromIterLoop_FirstWins(map, pairs, i) ==
    IF i > Len(pairs) THEN map
    ELSE IF ~BucketPanics(map.buckets) /\ ContainsKeyOf(map.buckets, pairs[i][1])
         THEN FromIterLoop_FirstWins(map, pairs, i + 1)
         ELSE LET r == InsertResult(map.buckets, map.items, pairs[i][1], pairs[i][2])
              IN FromIterLoop_FirstWins([buckets |-> r.buckets, items |-> r.items], pairs, i + 1)

\* for (k, v) in iter { map.insert(k, v); } from the i-th pair on.
RECURSIVE FromIterLoop(_, _, _)
FromIterLoop(map, pairs, i) ==
    IF i > Len(pairs) THEN map
    ELSE LET r == InsertResult(map.buckets, map.items, pairs[i][1], pairs[i][2])
         IN FromIterLoop([buckets |-> r.buckets, items |-> r.items], pairs, i + 1)

\* let mut map = HashMap::new(); the loop; map.
FromIterResult(pairs) == FromIterLoop([buckets |-> <<>>, items |-> 0], pairs, 1)

\* The client builds its table with from_iter instead of new().
FromIter(pairs) ==
    /\ pc = "idle"
    /\ call.op = "new"
    /\ Called("from_iter", 0, pairs)
    /\ LET r == FromIterResult(pairs)
       IN /\ buckets' = r.buckets
          /\ items' = r.items
    /\ ret' = Unit
    /\ shadow' = [k \in Keys |->
                    LET at == {i \in 1 .. Len(pairs) : pairs[i][1] = k}
                    IN IF at = {} THEN None
                       ELSE Some(pairs[CHOOSE i \in at : \A j \in at : j <= i][2])]
    /\ distinctInserts' = \A i, j \in 1 .. Len(pairs) : pairs[i][1] = pairs[j][1] => i = j
    /\ UNCHANGED <<pc, ent, iter, yielded>>

Next ==
    \/ call.op = "new" /\ \E pairs \in PairSeqs : FromIter(pairs)
    \/ \E k \in Keys, v \in Values : Insert(k, v)
    \/ \E k \in Keys : Get(k)
    \/ \E k \in Keys : ContainsKey(k)
    \/ \E k \in Keys : Remove(k)
    \/ GetLen
    \/ IsEmpty
    \/ \E k \in Keys : Entry(k)
    \/ \E v \in Values : OrInsert(v)
    \/ \E v \in Values : OrInsertWith(v)
    \/ OrInsertDefault
    \/ DropEntry
    \/ IntoIter
    \/ IterNext
    \/ DropIter

Spec == Init /\ [][Next]_vars

(***************************************************************************)
(* Vocabulary of the properties.                                           *)
(***************************************************************************)
\* The stored pairs of b, in bucket order.
Pairs(b) == Drain(b, 1)

\* The number of pairs held across all chains.
StoredCount(b) == Len(Pairs(b))

\* How often x occurs in the sequence s.
CountIn(s, x) == Cardinality({i \in 1 .. Len(s) : s[i] = x})

\* s and t hold the same elements, each as often.
SameBag(s, t) ==
    /\ Len(s) = Len(t)
    /\ \A i \in 1 .. Len(s) : CountIn(s, s[i]) = CountIn(t, s[i])

\* Key k is held in some chain of b (with value v).
Stored(b, k) == \E i \in 1 .. Len(Pairs(b)) : Pairs(b)[i][1] = k
StoredWith(b, k, v) == \E i \in 1 .. Len(Pairs(b)) : Pairs(b)[i] = <<k, v>>

\* The keys the calls so far have inserted and not removed since.
Live == {k \in Keys : shadow[k] # None}

\* The last call was insert, and it resized first.
InsertResized == call.op = "insert" /\ NeedsResize(pre.buckets, pre.items)

(***************************************************************************)
(* C1: the item count (len()) equals the number of pairs held across all   *)
(* chains, in every reachable state.                                       *)
(***************************************************************************)
C1_ItemCountIsStoredCount == LenOf(items) = StoredCount(buckets)

(***************************************************************************)
(* C2: get, contains_key and remove of a key that is not stored report     *)
(* absence (None / false) and never fault, also on a table with zero       *)
(* buckets.                                                                *)
(***************************************************************************)
C2_AbsentKeyReportsAbsence ==
    (/\ call.op \in {"get", "contains_key", "remove"}
     /\ ~Stored(pre.buckets, call.key))
    => /\ ret = (IF call.op = "contains_key" THEN Bool(FALSE) ELSE None)
       /\ pc # "panicked"

(***************************************************************************)
(* C3: insert(k, v2) on a table that stores k with v1 returns Some(v1),    *)
(* and a get(k) right after it returns v2, also when the call resized.     *)
(***************************************************************************)
C3_OverwriteReturnsOld ==
    \A v1 \in Values :
        (call.op = "insert" /\ StoredWith(pre.buckets, call.key, v1))
        => /\ ret = Some(v1)
           /\ ~BucketPanics(buckets)
           /\ Find(buckets, call.key) = Some(call.val)

\* An overwriting insert that resized and replaced a different value.
C3_Witness ==
    /\ InsertResized
    /\ Len(pre.buckets) > 0
    /\ \E v1 \in Values :
          /\ v1 # call.val
          /\ StoredWith(pre.buckets, call.key, v1)
          /\ ret = Some(v1)

(***************************************************************************)
(* C4: insert(k, v2) on a table that already stores k leaves len()         *)
(* unchanged.                                                              *)
(***************************************************************************)
C4_OverwriteKeepsLen ==
    (call.op = "insert" /\ Stored(pre.buckets, call.key))
    => LenOf(items) = LenOf(pre.items)

(***************************************************************************)
(* C5: insert(k, v) followed immediately by get(k) returns v, from every   *)
(* reachable state.                                                        *)
(***************************************************************************)
C5_InsertGetRoundTrip ==
    call.op = "insert"
    => /\ ~BucketPanics(buckets)
       /\ Find(buckets, call.key) = Some(call.val)

\* An insert of an absent key into a chain that already holds another key,
\* after a resize that moved pairs.
C5_Witness ==
    /\ InsertResized
    /\ ~Stored(pre.buckets, call.key)
    /\ Len(pre.buckets) >= 2
    /\ Len(buckets[Bucket(buckets, call.key) + 1]) >= 2
    /\ ret = None

(***************************************************************************)
(* C6: insert(k, v) then remove(k) returns Some(v), a get(k) after it      *)
(* returns None, and len() after the remove is one less than before it.    *)
(* Stated twice: for the remove that would follow each insert, and for     *)
(* every remove that was made of a stored key.                             *)
(***************************************************************************)
C6_RemoveRoundTrip ==
    /\ call.op = "insert"
       => LET r == RemoveResult(buckets, items, call.key)
          IN /\ ~BucketPanics(buckets)
             /\ r.ret = Some(call.val)
             /\ Find(r.buckets, call.key) = None
             /\ LenOf(r.items) = LenOf(items) - 1
    /\ \A v \in Values :
          (call.op = "remove" /\ StoredWith(pre.buckets, call.key, v))
          => /\ ret = Some(v)
             /\ Find(buckets, call.key) = None
             /\ LenOf(items) = LenOf(pre.items) - 1

\* A remove of a stored key that was not the last of its chain: swap_remove
\* moved another pair into its place.
C6_Witness ==
    /\ call.op = "remove"
    /\ ret.tag = "Some"
    /\ LET chain == pre.buckets[Bucket(pre.buckets, call.key) + 1]
       IN /\ Len(chain) >= 2
          /\ Position(chain, call.key) < Len(chain)

(***************************************************************************)
(* C7: once insert or entry has been called, contains_key(k) is true       *)
(* exactly for the keys inserted and not removed since; it equals          *)
(* get(k).is_some().                                                       *)
(***************************************************************************)
C7_ContainsKeyIsLive ==
    /\ Len(buckets) > 0
       => \A k \in Keys : ContainsKeyOf(buckets, k) <=> k \in Live
    /\ (call.op = "contains_key" /\ Len(pre.buckets) > 0)
       => /\ ret = Bool(call.key \in Live)
          /\ ret = Bool(Find(buckets, call.key).tag = "Some")

\* contains_key answered true for one key while another key, removed before,
\* is absent.
C7_Witness ==
    /\ call.op = "contains_key"
    /\ ret = Bool(TRUE)
    /\ \E k \in Keys : k # call.key /\ k \notin Live /\ ~ContainsKeyOf(buckets, k)
    /\ ~distinctInserts

(***************************************************************************)
(* C8: inserting N distinct keys into a new table gives len() = N and      *)
(* get(k) = the inserted value for each of them; every resize on the way   *)
(* keeps the stored pairs exactly (none lost, duplicated or changed).      *)
(***************************************************************************)
C8_DistinctInsertsKeepAll ==
    /\ distinctInserts
       => /\ LenOf(items) = Cardinality(Live)
          /\ StoredCount(buckets) = Cardinality(Live)
          /\ \A k \in Live : Find(buckets, k) = shadow[k]
    /\ (distinctInserts /\ call.op = "insert")
       => SameBag(Pairs(buckets), Append(Pairs(pre.buckets), <<call.key, call.val>>))
    /\ InsertResized
       => SameBag(Pairs(Resize(pre.buckets)), Pairs(pre.buckets))

\* NumKeys distinct keys inserted into a new table, the last insert resizing
\* a table of at least two buckets.
C8_Witness ==
    /\ distinctInserts
    /\ InsertResized
    /\ Live = Keys
    /\ Len(pre.buckets) >= 2
    /\ Len(buckets) = 2 * Len(pre.buckets)

(***************************************************************************)
(* C9: entry(k).or_insert(v1) on an absent key stores k with v1 and        *)
(* returns v1; a following entry(k).or_insert(v2) returns v1, leaves v1    *)
(* stored and does not change len().                                       *)
(***************************************************************************)
C9_EntryIdempotent ==
    /\ (call.op = "or_insert" /\ ~Stored(pre.buckets, call.key))
       => /\ ret = Some(call.val)
          /\ Find(buckets, call.key) = Some(call.val)
          /\ \A v2 \in Values :
                LET e == EntryResult(buckets, items, call.key)
                    r == OrInsertResult(e.buckets, items, e.ent, v2)
                IN /\ e.ent.kind = "Occupied"
                   /\ r.ret = Some(call.val)
                   /\ Find(r.buckets, call.key) = Some(call.val)
                   /\ LenOf(r.items) = LenOf(items)
    /\ \A v1 \in Values :
          (call.op = "or_insert" /\ StoredWith(pre.buckets, call.key, v1))
          => /\ ret = Some(v1)
             /\ Find(buckets, call.key) = Some(v1)
             /\ LenOf(items) = LenOf(pre.items)

\* or_insert stored a value for an absent key, and the entry call that
\* follows will resize before it finds the key.
C9_Witness ==
    /\ call.op = "or_insert"
    /\ ~Stored(pre.buckets, call.key)
    /\ ret = Some(call.val)
    /\ call.val # DefaultValue
    /\ NeedsResize(buckets, items)
    /\ StoredCount(buckets) >= 2

(***************************************************************************)
(* C10: a complete traversal by a fresh iterator yields every stored pair  *)
(* exactly once and nothing else, and yields len() pairs.                  *)
(***************************************************************************)
C10_TraversalIsComplete ==
    (call.op = "next" /\ ret = None)
    => /\ SameBag(yielded, Pairs(buckets))
       /\ Len(yielded) = LenOf(items)

(***************************************************************************)
(* C11: a new table has len() = 0 and is_empty() = true; an insert of a    *)
(* key that is not stored increases len() by exactly 1 and makes           *)
(* is_empty() false; is_empty() is true exactly when len() = 0.            *)
(***************************************************************************)
C11_LenAndIsEmpty ==
    /\ call.op = "new" => LenOf(items) = 0 /\ IsEmptyOf(items)
    /\ (call.op = "insert" /\ ~Stored(pre.buckets, call.key))
       => /\ LenOf(items) = LenOf(pre.items) + 1
          /\ ~IsEmptyOf(items)
    /\ IsEmptyOf(items) <=> LenOf(items) = 0
    /\ call.op = "len" => ret = Usize(items)
    /\ call.op = "is_empty" => ret = Bool(LenOf(items) = 0)

\* An insert of an absent key into a table that already held a pair.
C11_Witness ==
    /\ call.op = "insert"
    /\ ~Stored(pre.buckets, call.key)
    /\ StoredCount(pre.buckets) >= 1
    /\ LenOf(items) = LenOf(pre.items) + 1

(***************************************************************************)
(* C12: from_iter over a finite sequence of pairs gives the table state    *)
(* (buckets and item count) that insert, called on a new table for each    *)
(* pair in order, gives; for a key that occurs more than once, get returns *)
(* the value of its last occurrence.                                       *)
(***************************************************************************)
\* The table after insert was called for each pair of the sequence, the last
\* pair last.
RECURSIVE InsertedInOrder(_)
InsertedInOrder(pairs) ==
    IF pairs = <<>> THEN [buckets |-> <<>>, items |-> 0]
    ELSE LET m == InsertedInOrder(SubSeq(pairs, 1, Len(pairs) - 1))
             p == pairs[Len(pairs)]
             r == InsertResult(m.buckets, m.items, p[1], p[2])
         IN [buckets |-> r.buckets, items |-> r.items]

C12_FromIterIsInsertEach ==
    call.op = "from_iter"
    => /\ buckets = InsertedInOrder(call.val).buckets
       /\ items = InsertedInOrder(call.val).items
       /\ \A i \in 1 .. Len(call.val) :
             (\A j \in 1 .. Len(call.val) : call.val[j][1] = call.val[i][1] => j <= i)
             => Find(buckets, call.val[i][1]) = Some(call.val[i][2])

\* from_iter over a sequence in which a key occurs twice with different
\* values, another key between them.
C12_Witness ==
    /\ call.op = "from_iter"
    /\ Len(call.val) = 3
    /\ call.val[1][1] = call.val[3][1]
    /\ call.val[1][2] # call.val[3][2]
    /\ call.val[2][1] # call.val[1][1]

(***************************************************************************)
(* C13: every stored key lies in exactly one chain, the one at index       *)
(* hash(k) mod bucket_count for the current bucket count; also after every *)
(* resize and every vacant-path or_insert*.                                *)
(***************************************************************************)
\* The indices (0-based) of the chains that hold key k.
ChainsOf(b, k) == {i \in 0 .. Len(b) - 1 : Position(b[i + 1], k) # 0}

C13_KeyInItsBucket ==
    \A k \in Keys :
        Stored(buckets, k) => ChainsOf(buckets, k) = {Bucket(buckets, k)}

OrInsertOps == {"or_insert", "or_insert_with", "or_insert_default"}

\* A vacant-path or_insert* on a table of four buckets, after resizes that
\* moved pairs: two chains hold pairs.
C13_Witness ==
    /\ call.op \in OrInsertOps
    /\ ~Stored(pre.buckets, call.key)
    /\ Len(buckets) = 4
    /\ Cardinality({i \in 1 .. Len(buckets) : buckets[i] # <<>>}) >= 2

(***************************************************************************)
(* C14: no key is stored twice, within a chain or across the bucket array, *)
(* after any interleaving of insert, entry(..).or_insert*, remove and      *)
(* resize.                                                                 *)
(***************************************************************************)
C14_KeysDistinct ==
    \A i, j \in 1 .. Len(Pairs(buckets)) :
        Pairs(buckets)[i][1] = Pairs(buckets)[j][1] => i = j

\* An insert of a stored key that resized first, in a table of several pairs.
C14_Witness ==
    /\ InsertResized
    /\ Stored(pre.buckets, call.key)
    /\ StoredCount(buckets) >= 2
    /\ ~distinctInserts

(***************************************************************************)
(* C15: whenever insert or entry computes a bucket index, the bucket count *)
(* is at least 1 and the index is below it, also on the first call on a    *)
(* new table: neither divides by zero nor indexes out of bounds.           *)
(***************************************************************************)
C15_IndexInBounds ==
    /\ pc = "idle"
       => LET b1 == IF NeedsResize(buckets, items) THEN Resize(buckets) ELSE buckets
          IN /\ Len(b1) >= 1
             /\ \A k \in Keys : Bucket(b1, k) >= 0 /\ Bucket(b1, k) < Len(b1)
    /\ call.op = "insert"
       => /\ Len(buckets) >= 1
          /\ pc # "panicked"
          /\ Position(buckets[Bucket(buckets, call.key) + 1], call.key) # 0
    /\ call.op = "entry"
       => /\ Len(buckets) >= 1
          /\ pc # "panicked"
          /\ ent.bucket = Bucket(buckets, call.key)
          /\ ent.bucket < Len(buckets)

\* entry as the first call on a new table.
C15_Witness ==
    /\ call.op = "entry"
    /\ Len(pre.buckets) = 0
    /\ Len(buckets) = 1
    /\ ent.kind = "Vacant"
    /\ ent.bucket = 0

(***************************************************************************)
(* C16: an insert or entry call grows the bucket array if and only if, at  *)
(* the start of the call, the bucket array is empty or the number of       *)
(* stored pairs is greater than 3 * bucket_count / 4.                      *)
(***************************************************************************)
C16_GrowsIffLoadExceeded ==
    call.op \in {"insert", "entry"}
    => (Len(buckets) > Len(pre.buckets)
        <=> \/ Len(pre.buckets) = 0
            \/ StoredCount(pre.buckets) > (3 * Len(pre.buckets)) \div 4)

(***************************************************************************)
(* C17: the bucket count never decreases: 0 for a new table, 1 after the   *)
(* first resize, doubled by every later one, so always 0 or a power of     *)
(* two; remove, get, contains_key and iteration never change it.           *)
(***************************************************************************)
RECURSIVE IsPowerOfTwo(_)
IsPowerOfTwo(n) ==
    IF n = 1 THEN TRUE
    ELSE IF n < 1 \/ n % 2 = 1 THEN FALSE
    ELSE IsPowerOfTwo(n \div 2)

C17_BucketCountGrowsOnly ==
    /\ call.op = "new" => Len(buckets) = 0
    /\ \/ Len(buckets) = Len(pre.buckets)
       \/ Len(pre.buckets) = 0 /\ Len(buckets) = 1
       \/ Len(pre.buckets) > 0 /\ Len(buckets) = 2 * Len(pre.buckets)
       \/ call.op = "from_iter"
    /\ Len(buckets) = 0 \/ IsPowerOfTwo(Len(buckets))
    /\ call.op \in {"remove", "get", "contains_key", "len", "is_empty",
                    "into_iter", "next", "drop_iter"}
       => Len(buckets) = Len(pre.buckets)

\* The third doubling, from four buckets to eight.
C17_Witness ==
    /\ Len(pre.buckets) = 4
    /\ Len(buckets) = 8

(***************************************************************************)
(* C18: entry(k) and the or_insert* after it, as two steps.  Vacant: the   *)
(* bucket count at or_insert* is that at capture, the captured index is    *)
(* hash(k) mod that count, and or_insert* appends exactly the pair (k,     *)
(* value) to that chain and adds 1 to the item count.  Occupied: or_insert**)
(* changes neither the buckets nor the item count.                         *)
(***************************************************************************)
C18_EntryThenOrInsert ==
    /\ pc = "entry"
       => /\ call.op = "entry"
          /\ Len(buckets) >= 1
          /\ ent.key = call.key
          /\ ent.bucket = Bucket(buckets, ent.key)
          /\ ent.kind = "Vacant" <=> ~Stored(buckets, ent.key)
          /\ ent.kind = "Occupied"
             => /\ ent.at < Len(buckets[ent.bucket + 1])
                /\ buckets[ent.bucket + 1][ent.at + 1][1] = ent.key
    /\ (call.op \in OrInsertOps /\ ~Stored(pre.buckets, call.key))
       => /\ Len(buckets) = Len(pre.buckets)
          /\ buckets = [pre.buckets EXCEPT ![Bucket(pre.buckets, call.key) + 1] =
                            Append(@, <<call.key, call.val>>)]
          /\ items = pre.items + 1
    /\ (call.op \in OrInsertOps /\ Stored(pre.buckets, call.key))
       => /\ buckets = pre.buckets
          /\ items = pre.items

\* A vacant-path or_insert_with that appended to a chain that held a pair.
C18_Witness ==
    /\ call.op = "or_insert_with"
    /\ ~Stored(pre.buckets, call.key)
    /\ Len(buckets) >= 2
    /\ Len(buckets[Bucket(buckets, call.key) + 1]) >= 2

(***************************************************************************)
(* C19: an iterator over the unmodified table reaches the end after        *)
(* finitely many next() calls (at most one per stored pair, then None);    *)
(* its cursor only advances lexicographically; pairs come in ascending     *)
(* bucket index, then ascending chain position; past the last bucket every *)
(* further next() returns None.                                            *)
(***************************************************************************)
CursorLeq(c, d) == c.bucket < d.bucket \/ (c.bucket = d.bucket /\ c.at <= d.at)

C19_IterationTerminatesInOrder ==
    pc = "iter"
    => LET r == NextFrom(buckets, iter)
       IN /\ Len(yielded) <= StoredCount(buckets)
          /\ yielded = SubSeq(Pairs(buckets), 1, Len(yielded))
          /\ Len(yielded) = StoredCount(buckets) => r.ret = None
          /\ CursorLeq(iter, r.iter)
          /\ r.ret.tag = "Some" => iter # r.iter
          /\ iter.bucket >= Len(buckets) => r.ret = None /\ r.iter = iter
          /\ (call.op = "next" /\ ret = None) => iter.bucket >= Len(buckets)

\* A traversal that ended after yielding three pairs from two chains of a
\* table whose first bucket is empty.
C19_Witness ==
    /\ call.op = "next"
    /\ ret = None
    /\ Len(yielded) = 3
    /\ Len(buckets) >= 4
    /\ buckets[1] = <<>>
    /\ Cardinality({i \in 1 .. Len(buckets) : buckets[i] # <<>>}) = 2

(***************************************************************************)
(* C20: for distinct keys k and k2, insert(k, v), remove(k) and            *)
(* entry(k).or_insert*(..) leave get(k2) as it was before the call, also   *)
(* across a resize and a swap removal.                                     *)
(***************************************************************************)
C20_OtherKeysUntouched ==
    call.op \in {"insert", "remove", "entry"} \cup OrInsertOps
    => \A k2 \in Keys \ {call.key} : GetOf(buckets, k2) = GetOf(pre.buckets, k2)

\* The same, for the calls made on a table that has buckets.
C20_OtherKeysUntouchedOnceSized ==
    (call.op \in {"insert", "remove", "entry"} \cup OrInsertOps /\ Len(pre.buckets) > 0)
    => \A k2 \in Keys \ {call.key} : GetOf(buckets, k2) = GetOf(pre.buckets, k2)

=============================================================================
